---- MODULE Spec2Model ----
(***************************************************************************)
(* The reconciliation loop of the Cluster controller                       *)
(* (controllers/cluster_controller.go): Reconcile, SatisfiedExpectations   *)
(* and ReconcilePods, over one Cluster and its pods, jobs and PVCs.        *)
(* The callees whose code is outside the two source files (the             *)
(* expectation tracker, the snapshot collector, the status projector, the  *)
(* topology resolver, the instance actions, the upgrade sequencer) follow  *)
(* their contracts in the specification.                                   *)
(* The wal-archive command of the instance manager                          *)
(* (internal/cmd/manager/walarchive/cmd.go): run and                       *)
(* barmanCloudWalArchiveOptions, one run of the command step by step.      *)
(***************************************************************************)
EXTENDS Integers, FiniteSets, Sequences, TLC

\* ------------------------------------------------------------------ bounds

\* Node serials 1..MaxSerial can be allocated.
MaxSerial == 3

\* Spec.Instances ranges over 1..MaxInstances.
MaxInstances == 3

\* Number of disruptions (a pod lost, the user scaling the cluster or changing
\* the image) in a run.
MaxDisrupt == 1

Serials == 1..MaxSerial

\* The empty primary name ("").
NoPrimary == 0

VARIABLES
    specInstances,      \* cluster.Spec.Instances
    mwInProgress,       \* cluster.Spec.NodeMaintenanceWindow.InProgress
    mwReusePVC,         \* cluster.Spec.NodeMaintenanceWindow.ReusePVC
    status,             \* cluster.Status: the fields an invocation reads
                        \* before it rewrites them
    pods,               \* serial -> "none" | "pending" | "live" | "deleting"
    ready,              \* serials of the pods passing readiness
    stale,              \* serials of the pods running an outdated image
    pvcs,               \* serials of the PVCs
    jobs,               \* serials of the running jobs
    podExpectations,    \* r.podExpectations, for the key of the cluster
    jobExpectations,    \* r.jobExpectations
    pvcExpectations,    \* r.pvcExpectations
    inv,                \* what the latest invocation of Reconcile read and did
    disrupt,            \* disruptions so far
    walPc,              \* wal-archive: the position of run
    walBackup,          \* wal-archive: cluster.Spec.Backup of the cached cluster
    walVersion,         \* wal-archive: the barman-cloud version detected
    walOptions,         \* wal-archive: the option list built
    walCalls,           \* wal-archive: the calls run has made
    walExit,            \* wal-archive: exit codes of the tool, one per execution
    walReturn,          \* wal-archive: what run returned
    walLog              \* wal-archive: the messages logged

walVars == <<walPc, walBackup, walVersion, walOptions, walCalls, walExit,
             walReturn, walLog>>

clusterVars ==
    <<specInstances, mwInProgress, mwReusePVC, status, pods, ready, stale,
      pvcs, jobs, podExpectations, jobExpectations, pvcExpectations, inv,
      disrupt>>

vars == <<clusterVars, walVars>>

\* ------------------------------------------------------------ small helpers

Max(S) == CHOOSE x \in S : \A y \in S : y <= x

Min(S) == CHOOSE x \in S : \A y \in S : x <= y

\* ------------------------------------------------- the expectation tracker

\* A record of the tracker: pending creations, pending deletions, and whether
\* the time-to-live since the last Expect* call has elapsed.
NoExpectations == [add |-> 0, del |-> 0, expired |-> FALSE]

ExpectCreations(e, n) == [add |-> n, del |-> 0, expired |-> FALSE]

ExpectDeletions(e, n) == [add |-> 0, del |-> n, expired |-> FALSE]

ObserveCreation(e) == [e EXCEPT !.add = IF e.add > 0 THEN e.add - 1 ELSE 0]

ObserveDeletion(e) == [e EXCEPT !.del = IF e.del > 0 THEN e.del - 1 ELSE 0]

\* ControllerExpectations.SatisfiedExpectations(key): every counter is zero,
\* or the record has expired.
Fulfilled(e) == (e.add <= 0 /\ e.del <= 0) \/ e.expired

\* ------------------------------------------------------------ the snapshot

\* The pods the informer cache shows: a pod whose creation is not yet
\* delivered ("pending") is not listed; one whose deletion is not yet delivered
\* ("deleting") still is. PVCs and jobs are listed as soon as they exist; the
\* tracker counts them when their event is handled.
CachedPods(p) == {s \in Serials : p[s] \in {"live", "deleting"}}

countRunningJobs(j) == Cardinality(j)

ReadyInstances(p, r) == CachedPods(p) \cap r

DanglingPVCs(p, v) == v \ CachedPods(p)

\* ------------------------------------------------- the invocation's state

\* The state one invocation of Reconcile works on: the cluster object it
\* fetched (spec, status), the platform objects, the three trackers, and a
\* trace of what the invocation did: the callees it called, the rule of
\* ReconcilePods that matched, the error it returned, the serial it
\* allocated, the pod creations and deletions it issued.
World ==
    [spec |-> [instances |-> specInstances, mwInProgress |-> mwInProgress,
               mwReusePVC |-> mwReusePVC],
     status |-> [instances |-> 0, readyInstances |-> 0, danglingPVC |-> {},
                 currentPrimary |-> status.currentPrimary,
                 targetPrimary |-> status.targetPrimary,
                 phase |-> status.phase,
                 latestGeneratedNode |-> status.latestGeneratedNode],
     pods |-> pods, ready |-> ready, stale |-> stale,
     pvcs |-> pvcs, jobs |-> jobs,
     pe |-> podExpectations, je |-> jobExpectations, ve |-> pvcExpectations,
     outcome |-> "none", calls |-> {}, rule |-> "none", err |-> FALSE,
     failed |-> "", satisfied |-> FALSE, serial |-> 0, created |-> {}, deleted |-> {},
     overflow |-> FALSE]

Call(w, name) == [w EXCEPT !.calls = @ \cup {name}]

Done(w, outcome) == [w EXCEPT !.outcome = outcome]

Fail(w, outcome) == [w EXCEPT !.outcome = outcome, !.err = TRUE]

Rule(w, rule) == [w EXCEPT !.rule = rule]

\* Callee `name` returns an error.
Error(w, name) == [w EXCEPT !.err = TRUE, !.failed = name]

\* cluster.IsNodeMaintenanceWindowInProgress()
IsNodeMaintenanceWindowInProgress(spec) == spec.mwInProgress

\* cluster.IsNodeMaintenanceWindowReusePVC()
IsNodeMaintenanceWindowReusePVC(spec) == spec.mwInProgress /\ spec.mwReusePVC

\* ------------------------------------------------ callees of ReconcilePods

\* Recreate the pod of every dangling PVC, with the current image.
handleDanglingPVC(w, fault) ==
    IF fault = "errAction" THEN Error(w, "handleDanglingPVC")
    ELSE LET d == w.status.danglingPVC IN
         [w EXCEPT !.pods = [s \in Serials |->
                                IF s \in d /\ w.pods[s] = "none"
                                THEN "pending" ELSE w.pods[s]],
                   !.ready = @ \ {s \in d : w.pods[s] = "none"},
                   !.stale = @ \ {s \in d : w.pods[s] = "none"},
                   !.created = @ \cup d,
                   !.pe = ExpectCreations(w.pe, Cardinality(d))]

\* Allocate the next node serial and persist it in the status.
generateNodeSerial(w, fault) ==
    IF fault = "errSerial" THEN Error(w, "generateNodeSerial")
    ELSE IF w.status.latestGeneratedNode >= MaxSerial
    THEN [w EXCEPT !.overflow = TRUE]
    ELSE [w EXCEPT !.status.latestGeneratedNode = @ + 1,
                   !.serial = w.status.latestGeneratedNode + 1]

\* Create the pod and the PVC of instance `serial`.
CreateInstance(w, serial) ==
    [w EXCEPT !.pods[serial] = "pending",
              !.pvcs = @ \cup {serial},
              !.created = @ \cup {serial},
              !.pe = ExpectCreations(w.pe, 1),
              !.ve = ExpectCreations(w.ve, 1)]

\* Create the first instance, with a serial of its own.
createPrimaryInstance(w, fault) ==
    LET w1 == generateNodeSerial(w, fault) IN
    IF w1.err \/ w1.overflow THEN w1
    ELSE IF fault = "errAction" THEN Error(w1, "createPrimaryInstance")
    ELSE CreateInstance(w1, w1.serial)

\* Create a replica: its pod and PVC, and the job that joins it to the cluster.
joinReplicaInstance(w, serial, fault) ==
    IF fault = "errAction" THEN Error(w, "joinReplicaInstance")
    ELSE LET w1 == CreateInstance(w, serial) IN
         [w1 EXCEPT !.jobs = @ \cup {serial},
                    !.je = ExpectCreations(w.je, 1)]

\* Delete pod `s`: a pod not yet in the cache is gone at once, a cached one
\* stays listed until its deletion is observed.
DeletePod(w, s) ==
    [w EXCEPT !.pods[s] = IF @ = "pending" THEN "none"
                          ELSE IF @ = "live" THEN "deleting" ELSE @,
              !.deleted = @ \cup {s},
              !.pe = ExpectDeletions(w.pe, 1)]

DeletePVC(w, s) ==
    [w EXCEPT !.pvcs = @ \ {s},
              !.ve = ExpectDeletions(w.ve, 1)]

\* Remove one instance: the highest serial that is not the primary.
scaleDownCluster(w, fault) ==
    LET cand == CachedPods(w.pods) \ {w.status.currentPrimary} IN
    IF fault = "errAction" THEN Error(w, "scaleDownCluster")
    ELSE IF cand = {} THEN w
    ELSE DeletePVC(DeletePod(w, Max(cand)), Max(cand))

\* cluster.Status.Phase := phase, persisted.
RegisterPhase(w, phase, fault) ==
    IF fault = "errPhase" THEN Error(w, "RegisterPhase")
    ELSE [w EXCEPT !.status.phase = phase]

\* The rolling upgrade sequencer: recreate one instance running an outdated
\* image, never the primary.
upgradeCluster(w, fault) ==
    LET cand == {s \in CachedPods(w.pods) \cap w.stale :
                    w.pods[s] = "live" /\ s # w.status.currentPrimary
                                       /\ s # w.status.targetPrimary} IN
    IF fault = "errAction" THEN Error(w, "upgradeCluster")
    ELSE IF cand = {} THEN w
    ELSE DeletePod(w, Max(cand))

\* ------------------------------------------------------------ ReconcilePods

PhaseHealthy == "healthy"

\* The conditions of ReconcilePods, in the order it tests them.

\* Off by one: a single dangling PVC is not seen.
HasDanglingPVC_OffByOne(w) == Cardinality(w.status.danglingPVC) > 1

\* len(cluster.Status.DanglingPVC) > 0
HasDanglingPVC(w) == Cardinality(w.status.danglingPVC) > 0

\* The window test of the wait for a pod that is not ready, used here too.
DanglingMustWait_ReuseWindow(w) ==
    /\ ~IsNodeMaintenanceWindowReusePVC(w.spec)
    /\ w.status.readyInstances # w.status.instances

\* A pod is not ready, let's retry
DanglingMustWait(w) ==
    /\ ~IsNodeMaintenanceWindowInProgress(w.spec)
    /\ w.status.readyInstances # w.status.instances

\* The wrong field: the desired number of instances.
NoInstances_SpecField(w) == w.spec.instances = 0

\* There is no existent Pod for this PostgreSQL cluster
NoInstances(w) == w.status.instances = 0

\* The comparison with the desired number of instances is lost.
Reconciled_AnySize(w) == w.status.readyInstances = w.status.instances

\* When everything is reconciled
Reconciled(w) ==
    /\ w.status.readyInstances = w.status.instances
    /\ w.status.instances = w.spec.instances

\* The window test of the dangling-PVC rule, used here too: in a window that
\* does not reuse PVCs the loop does not wait for the pod.
PodNotReady_AnyWindow(w) ==
    /\ ~IsNodeMaintenanceWindowInProgress(w.spec)
    /\ w.status.readyInstances < w.status.instances

\* <= for <: the loop waits although every pod is ready.
PodNotReady_OrEqual(w) ==
    /\ ~IsNodeMaintenanceWindowReusePVC(w.spec)
    /\ w.status.readyInstances <= w.status.instances

\* A Pod is not ready, and we have not chosen to just wait for it
PodNotReady(w) ==
    /\ ~IsNodeMaintenanceWindowReusePVC(w.spec)
    /\ w.status.readyInstances < w.status.instances

\* > for <: a cluster with too few nodes never grows.
MissingNodes_Inverted(w) ==
    /\ w.status.instances > w.spec.instances
    /\ w.status.readyInstances = w.status.instances

\* Off by one: the last missing node is not seen.
MissingNodes_OffByOne(w) ==
    /\ w.status.instances + 1 < w.spec.instances
    /\ w.status.readyInstances = w.status.instances

\* Are there missing nodes?
MissingNodes(w) ==
    /\ w.status.instances < w.spec.instances
    /\ w.status.readyInstances = w.status.instances

\* >= for >: a cluster of the desired size is scaled down.
ExtraNodes_OrEqual(w) == w.status.instances >= w.spec.instances

\* Are there nodes to be removed?
ExtraNodes(w) == w.status.instances > w.spec.instances

\* ReconcilePods decides when to create, scale up/down or wait for pods.
ReconcilePods(w, fault) ==
    IF HasDanglingPVC(w) THEN
        IF DanglingMustWait(w)
        THEN Rule(w, "waitDangling")
        ELSE handleDanglingPVC(
                 Call(Rule(w, "dangling"), "handleDanglingPVC"), fault)
    ELSE IF NoInstances(w) THEN
        createPrimaryInstance(
            Call(Rule(w, "createPrimary"), "createPrimaryInstance"), fault)
    ELSE IF Reconciled(w) THEN
        LET w1 == RegisterPhase(Call(Rule(w, "healthy"), "RegisterPhase"),
                                PhaseHealthy, fault) IN
        IF w1.err THEN w1
        ELSE upgradeCluster(Call(w1, "upgradeCluster"), fault)
    ELSE IF PodNotReady(w) THEN
        Rule(w, "waitNotReady")
    ELSE IF MissingNodes(w) THEN
        LET w1 == generateNodeSerial(
                      Call(Rule(w, "join"), "generateNodeSerial"), fault) IN
        IF w1.err \/ w1.overflow THEN w1
        ELSE joinReplicaInstance(
                 Call(w1, "joinReplicaInstance"), w1.serial, fault)
    ELSE IF ExtraNodes(w) THEN
        scaleDownCluster(Call(Rule(w, "scaleDown"), "scaleDownCluster"), fault)
    ELSE Rule(w, "noop")

\* -------------------------------------------------------- callees of Reconcile

\* The status projector: the counts and the dangling PVCs of the snapshot.
updateResourceStatus(w) ==
    [w EXCEPT !.status.instances = Cardinality(CachedPods(w.pods)),
              !.status.readyInstances =
                  Cardinality(ReadyInstances(w.pods, w.ready)),
              !.status.danglingPVC = DanglingPVCs(w.pods, w.pvcs)]

\* The topology resolver. The instances that report are the ready ones. With
\* no report, or while the first primary is still being set up, the target
\* stays; with no target yet, or with the current primary not reporting, the
\* target becomes the lowest serial among the reporting instances.
updateTargetPrimaryFromPods(w) ==
    LET reports == ReadyInstances(w.pods, w.ready)
        st == w.status IN
    IF reports = {} THEN w
    ELSE IF st.targetPrimary = NoPrimary
    THEN [w EXCEPT !.status.targetPrimary = Min(reports)]
    ELSE IF st.currentPrimary = NoPrimary THEN w
    ELSE IF st.currentPrimary \notin reports
    THEN [w EXCEPT !.status.targetPrimary = Min(reports)]
    ELSE w

\* The PVC tracker is not asked.
SatisfiedExpectations_SkipPVC(w) ==
    IF ~Fulfilled(w.pe) THEN FALSE
    ELSE IF ~Fulfilled(w.je) THEN FALSE
    ELSE TRUE

\* The pod tracker is not asked.
SatisfiedExpectations_SkipPod(w) ==
    IF ~Fulfilled(w.je) THEN FALSE
    ELSE IF ~Fulfilled(w.ve) THEN FALSE
    ELSE TRUE

\* SatisfiedExpectations check if the expectations for a certain cluster are met
SatisfiedExpectations(w) ==
    IF ~Fulfilled(w.pe) THEN FALSE
    ELSE IF ~Fulfilled(w.je) THEN FALSE
    ELSE IF ~Fulfilled(w.ve) THEN FALSE
    ELSE TRUE

\* ----------------------------------------------------------------- Reconcile

\* What can go wrong in one invocation: at most one of these.
Faults ==
    {"none", "clusterNotFound", "errGet", "namespaceNotFound", "errNamespace",
     "nsDeleting",
     "errList", "conflict", "errStatus", "errAux", "errInstances",
     "errTarget", "errLabels", "errPhase", "errSerial", "errAction"}

\* The part of Reconcile after the jobs check.
ReconcileTail(w, fault) ==
    IF fault = "errAux" THEN Fail(Call(w, "createPostgresClusterObjects"), "errAux")
    ELSE LET w1 == Call(w, "createPostgresClusterObjects") IN
    IF fault = "errInstances" THEN Fail(w1, "errInstances")
    ELSE IF fault = "errTarget" THEN Fail(w1, "errTarget")
    ELSE LET w2 == updateTargetPrimaryFromPods(
                       Call(w1, "updateTargetPrimaryFromPods")) IN
    IF fault = "errLabels" THEN Fail(w2, "errLabels")
    ELSE LET w3 == Call(w2, "updateLabelsOnPods") IN
    IF SatisfiedExpectations(w3)
    THEN ReconcilePods(Done(Call([w3 EXCEPT !.satisfied = TRUE],
                                 "ReconcilePods"), "pods"), fault)
    ELSE Done(w3, "waitExpectations")

\* The current primary compared with itself: the loop never waits.
FailoverInProgress_SelfCompared(w) ==
    /\ w.status.currentPrimary # NoPrimary
    /\ w.status.currentPrimary # w.status.currentPrimary

\* = for the first !=: the loop waits only while no primary is current.
FailoverInProgress_EmptyOnly(w) ==
    /\ w.status.currentPrimary = NoPrimary
    /\ w.status.currentPrimary # w.status.targetPrimary

\* There is a switchover or a failover in progress
FailoverInProgress(w) ==
    /\ w.status.currentPrimary # NoPrimary
    /\ w.status.currentPrimary # w.status.targetPrimary

\* The cluster or the namespace is not found: only the lookup of the cluster
\* tests apierrs.IsNotFound; every failure of the namespace lookup is an error.
LookupFaults == {"clusterNotFound", "errGet", "namespaceNotFound",
                 "errNamespace", "nsDeleting"}

\* A namespace that carries a deletion timestamp is reported as an error.
Lookup_DeletionIsError(w, fault) ==
    IF fault = "clusterNotFound" THEN Done(w, "notFound")
    ELSE IF fault = "errGet" THEN Fail(w, "errGet")
    ELSE IF fault = "namespaceNotFound" THEN Fail(w, "namespaceNotFound")
    ELSE IF fault = "errNamespace" THEN Fail(w, "errNamespace")
    ELSE Fail(w, "nsDeleting")

\* The lookups of the cluster and of its namespace.
Lookup(w, fault) ==
    IF fault = "clusterNotFound" THEN Done(w, "notFound")
    ELSE IF fault = "errGet" THEN Fail(w, "errGet")
    ELSE IF fault = "namespaceNotFound" THEN Fail(w, "namespaceNotFound")
    ELSE IF fault = "errNamespace" THEN Fail(w, "errNamespace")
    ELSE Done(w, "nsDeleting")

\* Every failure of the status update is an error, the conflict too.
StatusUpdateFailed_ConflictIsError(w, fault) ==
    IF fault = "conflict" THEN Fail(w, "conflict") ELSE Fail(w, "errStatus")

\* updateResourceStatus fails: a conflict waits for another reconciler loop,
\* anything else is returned.
StatusUpdateFailed(w, fault) ==
    IF fault = "conflict" THEN Done(w, "conflict") ELSE Fail(w, "errStatus")

\* > 1 for > 0: one running job does not hold the loop.
JobsRunning_MoreThanOne(w) == countRunningJobs(w.jobs) > 1

\* If we are joining a node, we should wait for the process to finish
JobsRunning(w) == countRunningJobs(w.jobs) > 0

\* Reconcile is the operator reconciler loop
ReconcileResult(w, fault) ==
    IF fault \in LookupFaults THEN Lookup(w, fault)
    ELSE IF fault = "errList" THEN Fail(w, "errList")
    ELSE IF FailoverInProgress(w) THEN Done(w, "waitFailover")
    ELSE IF fault \in {"conflict", "errStatus"}
    THEN StatusUpdateFailed(Call(w, "updateResourceStatus"), fault)
    ELSE LET w1 == updateResourceStatus(Call(w, "updateResourceStatus")) IN
    IF JobsRunning(w1) THEN Done(w1, "waitJobs")
    ELSE ReconcileTail(w1, fault)

\* The value of inv while no invocation is being reported.
NoInvocation ==
    [outcome |-> "none", err |-> FALSE, calls |-> {}, failed |-> "",
     rule |-> "none", serial |-> 0, created |-> {}, deleted |-> {},
     spec |-> [instances |-> 0, mwInProgress |-> FALSE, mwReusePVC |-> FALSE],
     instances |-> 0, readyInstances |-> 0, danglingPVC |-> {},
     startCurrent |-> NoPrimary, startTarget |-> NoPrimary, latestBefore |-> 0,
     fulfilled |-> [pod |-> TRUE, job |-> TRUE, pvc |-> TRUE],
     runningJobs |-> 0]

\* Idle: the result of the latest invocation has been handed back to the work
\* queue. The platform moves, and the next invocation starts, only then.
Idle == inv = NoInvocation

\* One invocation of Reconcile, start to return. An invocation that would
\* allocate a serial beyond MaxSerial is outside the model.
Reconcile(fault) ==
    /\ Idle
    /\ \E w \in {ReconcileResult(World, fault)} :
           /\ ~w.overflow
           /\ status' = [currentPrimary |-> w.status.currentPrimary,
                         targetPrimary |-> w.status.targetPrimary,
                         phase |-> w.status.phase,
                         latestGeneratedNode |-> w.status.latestGeneratedNode]
           /\ pods' = w.pods
           /\ ready' = w.ready
           /\ stale' = w.stale
           /\ pvcs' = w.pvcs
           /\ jobs' = w.jobs
           /\ podExpectations' = w.pe
           /\ jobExpectations' = w.je
           /\ pvcExpectations' = w.ve
           /\ inv' = [outcome |-> w.outcome, err |-> w.err, calls |-> w.calls,
                      failed |-> w.failed, rule |-> w.rule, serial |-> w.serial,
                      created |-> w.created, deleted |-> w.deleted,
                      spec |-> w.spec,
                      instances |-> w.status.instances,
                      readyInstances |-> w.status.readyInstances,
                      danglingPVC |-> w.status.danglingPVC,
                      startCurrent |-> status.currentPrimary,
                      startTarget |-> status.targetPrimary,
                      latestBefore |-> status.latestGeneratedNode,
                      fulfilled |-> [pod |-> Fulfilled(podExpectations),
                                     job |-> Fulfilled(jobExpectations),
                                     pvc |-> Fulfilled(pvcExpectations)],
                      runningJobs |-> countRunningJobs(jobs)]
           /\ UNCHANGED <<specInstances, mwInProgress, mwReusePVC, disrupt,
                          walVars>>

ReconcileStep == \E fault \in Faults : Reconcile(fault)

\* The invocation's result is handed back.
Return ==
    /\ ~Idle
    /\ inv' = NoInvocation
    /\ UNCHANGED <<specInstances, mwInProgress, mwReusePVC, status, pods, ready,
                   stale, pvcs, jobs, podExpectations, jobExpectations,
                   pvcExpectations, disrupt, walVars>>

\* ------------------------------------------------------------ the platform

clusterSpecVars == <<specInstances, mwInProgress, mwReusePVC>>

\* The informer delivers the creation of pod s: the cache lists it and the
\* tracker counts it.
ObservePodCreation(s) ==
    /\ Idle
    /\ pods[s] = "pending"
    /\ pods' = [pods EXCEPT ![s] = "live"]
    /\ podExpectations' = ObserveCreation(podExpectations)
    /\ UNCHANGED <<inv, clusterSpecVars, status, ready, stale, pvcs, jobs,
                   jobExpectations, pvcExpectations, disrupt, walVars>>

ObservePodDeletion(s) ==
    /\ Idle
    /\ pods[s] = "deleting"
    /\ pods' = [pods EXCEPT ![s] = "none"]
    /\ ready' = ready \ {s}
    /\ stale' = stale \ {s}
    /\ podExpectations' = ObserveDeletion(podExpectations)
    /\ UNCHANGED <<inv, clusterSpecVars, status, pvcs, jobs, jobExpectations,
                   pvcExpectations, disrupt, walVars>>

\* The creation of a PVC is handled: the tracker counts it.
ObservePVCCreation ==
    /\ Idle
    /\ pvcExpectations.add > 0
    /\ pvcExpectations' = ObserveCreation(pvcExpectations)
    /\ UNCHANGED <<inv, clusterSpecVars, status, pods, ready, stale, pvcs, jobs,
                   podExpectations, jobExpectations, disrupt, walVars>>

ObservePVCDeletion ==
    /\ Idle
    /\ pvcExpectations.del > 0
    /\ pvcExpectations' = ObserveDeletion(pvcExpectations)
    /\ UNCHANGED <<inv, clusterSpecVars, status, pods, ready, stale, pvcs, jobs,
                   podExpectations, jobExpectations, disrupt, walVars>>

ObserveJobCreation ==
    /\ Idle
    /\ jobExpectations.add > 0
    /\ jobExpectations' = ObserveCreation(jobExpectations)
    /\ UNCHANGED <<inv, clusterSpecVars, status, pods, ready, stale, pvcs, jobs,
                   podExpectations, pvcExpectations, disrupt, walVars>>

\* The join job of instance s finishes.
JobFinishes(s) ==
    /\ Idle
    /\ s \in jobs
    /\ jobs' = jobs \ {s}
    /\ UNCHANGED <<inv, clusterSpecVars, status, pods, ready, stale, pvcs,
                   podExpectations, jobExpectations, pvcExpectations, disrupt,
                   walVars>>

\* Pod s passes readiness, once its join job is over.
PodBecomesReady(s) ==
    /\ Idle
    /\ pods[s] = "live"
    /\ s \notin ready
    /\ s \notin jobs
    /\ ready' = ready \cup {s}
    /\ UNCHANGED <<inv, clusterSpecVars, status, pods, stale, pvcs, jobs,
                   podExpectations, jobExpectations, pvcExpectations, disrupt,
                   walVars>>

Expired(e) == IF Fulfilled(e) THEN e ELSE [e EXCEPT !.expired = TRUE]

\* The time-to-live horizon elapses: every unfulfilled record expires.
Expire ==
    /\ Idle
    /\ ~Fulfilled(podExpectations) \/ ~Fulfilled(jobExpectations)
          \/ ~Fulfilled(pvcExpectations)
    /\ podExpectations' = Expired(podExpectations)
    /\ jobExpectations' = Expired(jobExpectations)
    /\ pvcExpectations' = Expired(pvcExpectations)
    /\ UNCHANGED <<inv, clusterSpecVars, status, pods, ready, stale, pvcs, jobs,
                   disrupt, walVars>>

\* The instance manager of the target primary completes the promotion.
Promote ==
    /\ Idle
    /\ status.targetPrimary # NoPrimary
    /\ status.targetPrimary # status.currentPrimary
    /\ pods[status.targetPrimary] \in {"live", "deleting"}
    /\ status.targetPrimary \in ready
    /\ status' = [status EXCEPT !.currentPrimary = status.targetPrimary]
    /\ UNCHANGED <<inv, clusterSpecVars, pods, ready, stale, pvcs, jobs,
                   podExpectations, jobExpectations, pvcExpectations, disrupt,
                   walVars>>

\* --------------------------------------------------------------- disruptions

\* Pod s is lost (its node fails); its PVC stays.
PodLost(s) ==
    /\ Idle
    /\ disrupt < MaxDisrupt
    /\ pods[s] = "live"
    /\ pods' = [pods EXCEPT ![s] = "none"]
    /\ ready' = ready \ {s}
    /\ stale' = stale \ {s}
    /\ podExpectations' = ObserveDeletion(podExpectations)
    /\ disrupt' = disrupt + 1
    /\ UNCHANGED <<inv, clusterSpecVars, status, pvcs, jobs, jobExpectations,
                   pvcExpectations, walVars>>

\* The user scales the cluster.
SetInstances(n) ==
    /\ Idle
    /\ disrupt < MaxDisrupt
    /\ n # specInstances
    /\ specInstances' = n
    /\ disrupt' = disrupt + 1
    /\ UNCHANGED <<inv, mwInProgress, mwReusePVC, status, pods, ready, stale,
                   pvcs, jobs, podExpectations, jobExpectations,
                   pvcExpectations, walVars>>

\* The user changes the image: every existing pod runs an outdated one.
NewImage ==
    /\ Idle
    /\ disrupt < MaxDisrupt
    /\ stale # {s \in Serials : pods[s] # "none"}
    /\ stale' = {s \in Serials : pods[s] # "none"}
    /\ disrupt' = disrupt + 1
    /\ UNCHANGED <<inv, clusterSpecVars, status, pods, ready, pvcs, jobs,
                   podExpectations, jobExpectations, pvcExpectations, walVars>>

\* ------------------------------------------------------------ specification

\* The wal-archive command is not running.
WalOff ==
    /\ walPc = "off"
    /\ walBackup = [hasBackup |-> FALSE]
    /\ walVersion = [known |-> FALSE]
    /\ walOptions = <<>>
    /\ walCalls = {}
    /\ walExit = <<>>
    /\ walReturn = "running"
    /\ walLog = {}

\* A cluster just created: nothing of it exists yet.
NewCluster ==
    /\ status = [currentPrimary |-> NoPrimary, targetPrimary |-> NoPrimary,
                 phase |-> "", latestGeneratedNode |-> 0]
    /\ pods = [s \in Serials |-> "none"]
    /\ ready = {}
    /\ stale = {}
    /\ pvcs = {}
    /\ jobs = {}
    /\ podExpectations = NoExpectations
    /\ jobExpectations = NoExpectations
    /\ pvcExpectations = NoExpectations
    /\ inv = NoInvocation
    /\ disrupt = 0

Init ==
    /\ specInstances \in 1..MaxInstances
    /\ mwInProgress \in BOOLEAN
    /\ mwReusePVC \in BOOLEAN
    /\ mwReusePVC => mwInProgress
    /\ NewCluster
    /\ WalOff

Next ==
    \/ ReconcileStep
    \/ Return
    \/ \E s \in Serials : ObservePodCreation(s)
    \/ \E s \in Serials : ObservePodDeletion(s)
    \/ ObservePVCCreation
    \/ ObservePVCDeletion
    \/ ObserveJobCreation
    \/ \E s \in Serials : JobFinishes(s)
    \/ \E s \in Serials : PodBecomesReady(s)
    \/ Expire
    \/ Promote
    \/ \E s \in Serials : PodLost(s)
    \/ \E n \in 1..MaxInstances : SetInstances(n)
    \/ NewImage

Spec == Init /\ [][Next]_vars

\* ------------------------------------------------- the loop left to converge

\* The runs of the convergence claim: no call of the platform API fails, and
\* the user scales the cluster only while serials are left for the instances
\* asked for.
SerialsLeftFor(n) ==
    n - Cardinality(pvcs) <= MaxSerial - status.latestGeneratedNode

\* Everything the platform owes is delivered: the creations and deletions
\* issued are observed, the jobs finish, the pods become ready, the promotion
\* completes.
Settled ==
    /\ \A s \in Serials : pods[s] \in {"none", "live"}
    /\ jobs = {}
    /\ CachedPods(pods) \subseteq ready
    /\ podExpectations.add = 0 /\ podExpectations.del = 0
    /\ jobExpectations.add = 0
    /\ pvcExpectations.add = 0 /\ pvcExpectations.del = 0
    /\ ~ENABLED Promote

Settle ==
    LET livePods == {s \in Serials : pods[s] \in {"pending", "live"}} IN
    /\ Idle
    /\ ~Settled
    /\ pods' = [s \in Serials |-> IF s \in livePods THEN "live" ELSE "none"]
    /\ ready' = livePods
    /\ stale' = stale \cap livePods
    /\ jobs' = {}
    /\ podExpectations' = [podExpectations EXCEPT !.add = 0, !.del = 0]
    /\ jobExpectations' = [jobExpectations EXCEPT !.add = 0]
    /\ pvcExpectations' = [pvcExpectations EXCEPT !.add = 0, !.del = 0]
    /\ status' = IF status.targetPrimary \in livePods
                 THEN [status EXCEPT !.currentPrimary = status.targetPrimary]
                 ELSE status
    /\ UNCHANGED <<inv, clusterSpecVars, pvcs, disrupt, walVars>>

LiveNext ==
    \/ Reconcile("none")
    \/ Return
    \/ Settle
    \/ \E s \in Serials : ObservePodCreation(s)
    \/ \E s \in Serials : ObservePodDeletion(s)
    \/ ObservePVCCreation
    \/ ObservePVCDeletion
    \/ ObserveJobCreation
    \/ \E s \in Serials : JobFinishes(s)
    \/ \E s \in Serials : PodBecomesReady(s)
    \/ Expire
    \/ Promote
    \/ \E s \in Serials : PodLost(s)
    \/ \E n \in 1..MaxInstances : SerialsLeftFor(n) /\ SetInstances(n)
    \/ NewImage

\* Reconcile is invoked again and again, and the platform settles again and
\* again: every issued creation and deletion is observed, jobs finish, pods
\* become ready, promotions complete. The platform does not wait for the
\* loop, which the model lets it do between invocations: its fairness is
\* strong.
LiveSpec ==
    /\ Init
    /\ [][LiveNext]_vars
    /\ WF_vars(Reconcile("none"))
    /\ WF_vars(Return)
    /\ SF_vars(Settle)

\* ------------------------------------------------- the wal-archive command

barmanCloudWalArchiveName == "barman-cloud-wal-archive"

\* The arguments of run.
WalClusterName == "cluster-example"

WalName == "000000010000000000000001"

\* configuration.Wal: nil, or the compression and the encryption ("" when
\* not set).
NoWal == [set |-> FALSE, compression |-> "", encryption |-> ""]

WalSections ==
    {NoWal} \cup [set : {TRUE}, compression : {"", "gzip"},
                  encryption : {"", "AES256"}]

\* cluster.Spec.Backup without an object store: Backup is nil, or
\* Backup.BarmanObjectStore is.
NoStore(hasBackup) ==
    [hasBackup |-> hasBackup, hasStore |-> FALSE, wal |-> NoWal,
     endpointURL |-> "", s3 |-> FALSE, azure |-> FALSE, serverName |-> "",
     destinationPath |-> ""]

\* cluster.Spec.Backup of the cluster in the cache.
Backups ==
    {NoStore(FALSE), NoStore(TRUE)}
        \cup [hasBackup : {TRUE}, hasStore : {TRUE}, wal : WalSections,
              endpointURL : {"", "http://minio:9000"}, s3 : BOOLEAN,
              azure : BOOLEAN, serverName : {"", "pg-archive"},
              destinationPath : {"s3://backups/"}]

\* version *semver.Version: nil, or major.minor.
NoVersion == [known |-> FALSE]

Versions ==
    {[known |-> TRUE, major |-> v[1], minor |-> v[2]] :
        v \in {<<1, 20>>, <<2, 12>>, <<2, 13>>, <<2, 14>>, <<3, 0>>}}

\* The exit codes of the tool: success, failure, and -1 when it could not be
\* started.
ExitCodes == {0, 1, -1}

\* fmt.Sprintf("--%v", configuration.Wal.Compression)
CompressionOption(compression) ==
    IF compression = "gzip" THEN "--gzip"
    ELSE IF compression = "bzip2" THEN "--bzip2"
    ELSE "--"

\* Only the major number is compared: 2.12 passes for 2.13.
barmanCloudVersionGE213_MajorOnly(version) ==
    version.known /\ version.major >= 2

\* version != nil && version.GE(semver.Version{Major: 2, Minor: 13})
barmanCloudVersionGE213(version) ==
    /\ version.known
    /\ \/ version.major > 2
       \/ version.major = 2 /\ version.minor >= 13

AzureError == "barman >= 2.13 is required to use Azure object storage"

\* The option list of the tool, or the error.
barmanCloudWalArchiveOptions(configuration, clusterName, walName, version) ==
    LET walOpts ==
            IF configuration.wal.set
            THEN (IF configuration.wal.compression # ""
                  THEN <<CompressionOption(configuration.wal.compression)>>
                  ELSE <<>>)
                 \o (IF configuration.wal.encryption # ""
                     THEN <<"-e", configuration.wal.encryption>>
                     ELSE <<>>)
            ELSE <<>>
        endpoint ==
            IF configuration.endpointURL # ""
            THEN <<"--endpoint-url", configuration.endpointURL>>
            ELSE <<>>
        provider ==
            IF barmanCloudVersionGE213(version)
            THEN (IF configuration.s3
                  THEN <<"--cloud-provider", "aws-s3">> ELSE <<>>)
                 \o (IF configuration.azure
                     THEN <<"--cloud-provider", "azure-blob-storage">>
                     ELSE <<>>)
            ELSE <<>>
        serverName ==
            IF configuration.serverName # ""
            THEN configuration.serverName ELSE clusterName
    IN  IF ~barmanCloudVersionGE213(version) /\ configuration.azure
        THEN [err |-> AzureError, options |-> <<>>]
        ELSE [err |-> "",
              options |-> walOpts \o endpoint \o provider
                          \o <<configuration.destinationPath, serverName,
                               walName>>]

\* run returns: the value returned, the message logged on the way.
WalReturns(value, message) ==
    /\ walPc' = "done"
    /\ walReturn' = value
    /\ walLog' = walLog \cup {message}

\* typedClient, err = management.NewControllerRuntimeClient()
WalNewClient ==
    /\ walPc = "start"
    /\ walCalls' = walCalls \cup {"NewControllerRuntimeClient"}
    /\ \E ok \in BOOLEAN :
           IF ok
           THEN walPc' = "getCluster" /\ UNCHANGED <<walReturn, walLog>>
           ELSE WalReturns("cannot create k8s client",
                           "Error while creating k8s client")
    /\ UNCHANGED <<walBackup, walVersion, walOptions, walExit, clusterVars>>

\* cluster, err = cacheClient.GetCluster(ctx, typedClient, namespace, clusterName)
WalGetCluster ==
    /\ walPc = "getCluster"
    /\ walCalls' = walCalls \cup {"GetCluster"}
    /\ \E ok \in BOOLEAN :
           IF ok
           THEN walPc' = "backup" /\ UNCHANGED <<walReturn, walLog>>
           ELSE WalReturns("failed to get cluster",
                           "Error while getting cluster from cache")
    /\ UNCHANGED <<walBackup, walVersion, walOptions, walExit, clusterVars>>

\* The object store is not tested: a backup section is enough.
BackupConfigured_BackupOnly(backup) == backup.hasBackup

\* !(cluster.Spec.Backup == nil || cluster.Spec.Backup.BarmanObjectStore == nil)
BackupConfigured(backup) == backup.hasBackup /\ backup.hasStore

\* Backup not configured, skipping WAL
WalCheckBackup ==
    /\ walPc = "backup"
    /\ IF BackupConfigured(walBackup)
       THEN walPc' = "version" /\ UNCHANGED <<walReturn, walLog>>
       ELSE WalReturns("nil", "Backup not configured, skip WAL archiving")
    /\ UNCHANGED <<walBackup, walVersion, walOptions, walCalls, walExit,
                   clusterVars>>

\* version, err := barman.GetBarmanCloudVersion(barmanCloudWalArchiveName):
\* an error is logged, and run goes on with no version.
WalGetVersion ==
    /\ walPc = "version"
    /\ walCalls' = walCalls \cup {"GetBarmanCloudVersion"}
    /\ \E version \in Versions \cup {NoVersion} :
           /\ walVersion' = version
           /\ walLog' = IF version = NoVersion
                        THEN walLog \cup
                                 {"while getting barman-cloud-wal-archive version"}
                        ELSE walLog
    /\ walPc' = "options"
    /\ UNCHANGED <<walBackup, walOptions, walExit, walReturn, clusterVars>>

\* options, err := barmanCloudWalArchiveOptions(*cluster, clusterName, walName, version)
WalBuildOptions ==
    /\ walPc = "options"
    /\ walCalls' = walCalls \cup {"barmanCloudWalArchiveOptions"}
    /\ \E built \in {barmanCloudWalArchiveOptions(
                         walBackup, WalClusterName, WalName, walVersion)} :
           IF built.err = ""
           THEN /\ walOptions' = built.options
                /\ walPc' = "env"
                /\ UNCHANGED <<walReturn, walLog>>
           ELSE /\ WalReturns(built.err,
                              "while getting barman-cloud-wal-archive options")
                /\ UNCHANGED walOptions
    /\ UNCHANGED <<walBackup, walVersion, walExit, clusterVars>>

\* env, err := cacheClient.GetEnv(...)
WalGetEnv ==
    /\ walPc = "env"
    /\ walCalls' = walCalls \cup {"GetEnv"}
    /\ \E ok \in BOOLEAN :
           IF ok
           THEN walPc' = "exec" /\ UNCHANGED <<walReturn, walLog>>
           ELSE WalReturns("failed to get envs",
                           "Error while getting environment from cache")
    /\ UNCHANGED <<walBackup, walVersion, walOptions, walExit, clusterVars>>

\* > 0 for != 0: a tool that could not be started counts as a success.
RunFailed_PositiveOnly(code) == code > 0

\* err = execlog.RunStreaming(...); err != nil
RunFailed(code) == code # 0

ToolFailure == "unexpected failure invoking barman-cloud-wal-archive"

\* The tool is executed, once; its failure is returned, wrapped.
WalExec ==
    /\ walPc = "exec"
    /\ walCalls' = walCalls \cup {"RunStreaming"}
    /\ \E code \in ExitCodes :
           /\ walExit' = Append(walExit, code)
           /\ IF RunFailed(code)
              THEN WalReturns(ToolFailure,
                              "Error invoking barman-cloud-wal-archive")
              ELSE WalReturns("nil", "Archived WAL file")
    /\ UNCHANGED <<walBackup, walVersion, walOptions, clusterVars>>

\* One run of the command, for every backup section the cluster can have.
WalInit ==
    /\ specInstances = 1
    /\ mwInProgress = FALSE
    /\ mwReusePVC = FALSE
    /\ NewCluster
    /\ walPc = "start"
    /\ walBackup \in Backups
    /\ walVersion = NoVersion
    /\ walOptions = <<>>
    /\ walCalls = {}
    /\ walExit = <<>>
    /\ walReturn = "running"
    /\ walLog = {}

WalNext ==
    \/ WalNewClient
    \/ WalGetCluster
    \/ WalCheckBackup
    \/ WalGetVersion
    \/ WalBuildOptions
    \/ WalGetEnv
    \/ WalExec

WalSpec == WalInit /\ [][WalNext]_vars

\* ------------------------------------------------------- reading an invocation

\* An invocation has just returned, and inv describes it.
Invoked == ~Idle

\* The invocation entered ReconcilePods.
EnteredPods == "ReconcilePods" \in inv.calls

AllFulfilled == inv.fulfilled.pod /\ inv.fulfilled.job /\ inv.fulfilled.pvc

\* The callees of ReconcilePods.
SelectorCallees ==
    {"handleDanglingPVC", "createPrimaryInstance", "RegisterPhase",
     "upgradeCluster", "generateNodeSerial", "joinReplicaInstance",
     "scaleDownCluster"}

SelectorCalls == inv.calls \cap SelectorCallees

\* No pod was created, recreated, upgraded or removed.
NoPodAction ==
    /\ inv.created = {}
    /\ inv.deleted = {}
    /\ SelectorCalls = {}

\* The outcomes of an invocation that returns before the failover check.
EarlyOutcomes ==
    {"notFound", "errGet", "namespaceNotFound", "errNamespace", "nsDeleting",
     "errList"}

\* --------------------------------------------------------------------- claims

\* C1: an invocation that finds the pod, job or PVC expectations of the
\* cluster unfulfilled does not enter ReconcilePods and acts on no pod; at
\* the gate its outcome is the wait; ReconcilePods is entered only with all
\* three kinds fulfilled.
C1_ExpectationsGate ==
    Invoked =>
        /\ ~AllFulfilled => (~EnteredPods /\ NoPodAction /\ inv.rule = "none")
        /\ EnteredPods => AllFulfilled
        /\ inv.outcome = "waitExpectations" => (~AllFulfilled /\ ~inv.err)
        /\ (~AllFulfilled /\ "updateLabelsOnPods" \in inv.calls)
               => inv.outcome = "waitExpectations"

\* An invocation waited at the gate with only the PVC creation unobserved.
C1_Witness ==
    /\ inv.outcome = "waitExpectations"
    /\ inv.fulfilled.pod /\ inv.fulfilled.job /\ ~inv.fulfilled.pvc

\* C2, as stated: an invocation that starts with current primary different
\* from target primary, an empty current primary included, acts on no pod.
C2_Original ==
    (Invoked /\ inv.startCurrent # inv.startTarget)
        => (inv.created = {} /\ inv.deleted = {})

\* C2, amended: an invocation that starts with a non-empty current primary
\* different from the target primary waits: it calls nothing and acts on no
\* pod.
C2_FailoverWait ==
    (Invoked /\ inv.startCurrent # NoPrimary
             /\ inv.startCurrent # inv.startTarget)
        => /\ inv.outcome \in EarlyOutcomes \cup {"waitFailover"}
           /\ inv.calls = {}
           /\ NoPodAction
           /\ inv.outcome = "waitFailover" => ~inv.err

\* An invocation waited for a promotion to complete.
C2_Witness ==
    /\ inv.outcome = "waitFailover"
    /\ inv.startCurrent # NoPrimary
    /\ inv.startCurrent # inv.startTarget

\* A pod creation is recorded, not yet observed, and not yet expired.
C3_PendingCreation == podExpectations.add > 0 /\ ~podExpectations.expired

\* C3: while a recorded pod creation is neither observed nor expired,
\* SatisfiedExpectations is false, and a step either observes a creation,
\* or lets the time-to-live elapse, or leaves the record as it is; an
\* invocation of Reconcile is of the last kind: it does not enter
\* ReconcilePods and creates and deletes no pod.
C3_Gating ==
    /\ [](C3_PendingCreation => ~SatisfiedExpectations(World))
    /\ [][C3_PendingCreation =>
            \/ podExpectations' = ObserveCreation(podExpectations)
            \/ podExpectations' = Expired(podExpectations)
            \/ /\ podExpectations' = podExpectations
               /\ inv' # NoInvocation =>
                      /\ "ReconcilePods" \notin inv'.calls
                      /\ inv'.created = {}
                      /\ inv'.deleted = {}]_vars

\* An invocation waited while the pod it had created was not yet in the
\* snapshot.
C3_Witness ==
    /\ C3_PendingCreation
    /\ inv.outcome = "waitExpectations"
    /\ ~inv.fulfilled.pod
    /\ \E s \in Serials : pods[s] = "pending"

\* C4, as stated: with Status.Instances = 0 ReconcilePods creates the first
\* instance, whatever the dangling PVCs.
C4_Original ==
    (EnteredPods /\ inv.instances = 0) => inv.rule = "createPrimary"

\* C4, amended: with Status.Instances = 0 and no dangling PVC, ReconcilePods
\* calls createPrimaryInstance and nothing else, whatever Spec.Instances and
\* the maintenance-window flags.
C4_FirstInstance ==
    (EnteredPods /\ inv.instances = 0 /\ inv.danglingPVC = {})
        => /\ inv.rule = "createPrimary"
           /\ SelectorCalls = {"createPrimaryInstance"}
           /\ inv.deleted = {}
           /\ inv.err \/ inv.created = {inv.serial}

\* The first instance was created during a maintenance window.
C4_Witness ==
    /\ inv.rule = "createPrimary"
    /\ inv.instances = 0
    /\ inv.created # {}
    /\ inv.spec.mwInProgress

\* C5: with dangling PVCs and ReadyInstances = Instances, ReconcilePods calls
\* handleDanglingPVC and nothing else, and the pods created are those of the
\* dangling PVCs.
C5_RecreateDangling ==
    (EnteredPods /\ inv.danglingPVC # {}
                 /\ inv.readyInstances = inv.instances)
        => /\ inv.rule = "dangling"
           /\ SelectorCalls = {"handleDanglingPVC"}
           /\ inv.deleted = {}
           /\ inv.created = IF inv.err THEN {} ELSE inv.danglingPVC

\* The pod of a dangling PVC was recreated beside a ready instance.
C5_Witness ==
    /\ inv.rule = "dangling"
    /\ inv.instances > 0
    /\ inv.readyInstances = inv.instances
    /\ inv.created = inv.danglingPVC
    /\ inv.created # {}

\* The action classes an invocation fired, by the callees it called.
FiredClasses ==
    {c \in {"dangling", "createPrimary", "healthy", "join", "scaleDown"} :
        \/ c = "dangling" /\ "handleDanglingPVC" \in inv.calls
        \/ c = "createPrimary" /\ "createPrimaryInstance" \in inv.calls
        \/ c = "healthy" /\ inv.calls \cap {"RegisterPhase", "upgradeCluster"} # {}
        \/ c = "join"
             /\ inv.calls \cap {"generateNodeSerial", "joinReplicaInstance"} # {}
        \/ c = "scaleDown" /\ "scaleDownCluster" \in inv.calls}

\* The first rule, in the order of the priority list, whose guard holds of
\* what the invocation read.
FirstRule ==
    IF inv.danglingPVC # {} THEN "dangling"
    ELSE IF inv.instances = 0 THEN "createPrimary"
    ELSE IF inv.readyInstances = inv.instances
              /\ inv.instances = inv.spec.instances THEN "healthy"
    ELSE IF ~(inv.spec.mwInProgress /\ inv.spec.mwReusePVC)
              /\ inv.readyInstances < inv.instances THEN "wait"
    ELSE IF inv.instances < inv.spec.instances
              /\ inv.readyInstances = inv.instances THEN "join"
    ELSE IF inv.instances > inv.spec.instances THEN "scaleDown"
    ELSE "noop"

\* C6: an invocation of ReconcilePods fires at most one action class, the one
\* of the first rule whose guard holds (the dangling-PVC rule fires its class
\* or waits); pods are created and deleted only by the class fired, and by
\* none when the first rule is a wait or no rule matches.
C6_OneActionClass ==
    EnteredPods =>
        /\ Cardinality(FiredClasses) <= 1
        /\ FiredClasses \subseteq {FirstRule}
        /\ FirstRule \in {"createPrimary", "healthy", "join", "scaleDown"}
               => FiredClasses = {FirstRule}
        /\ inv.created # {}
               => FiredClasses \cap {"dangling", "createPrimary", "join"} # {}
        /\ inv.deleted # {} => FiredClasses \cap {"healthy", "scaleDown"} # {}
        /\ FirstRule \in {"wait", "noop"} => NoPodAction

\* An invocation scaled the cluster down, and only that.
C6_Witness ==
    /\ EnteredPods
    /\ FirstRule = "scaleDown"
    /\ FiredClasses = {"scaleDown"}
    /\ inv.deleted # {}

\* The case of C9: some instances, fewer than desired, all ready, no dangling
\* PVC, no promotion in progress.
C9_JoinCase ==
    /\ EnteredPods
    /\ inv.instances > 0
    /\ inv.instances < inv.spec.instances
    /\ inv.readyInstances = inv.instances
    /\ inv.danglingPVC = {}
    /\ inv.startCurrent = inv.startTarget

C10_UpgradeWhenReconciled ==
    EnteredPods =>
        /\ "upgradeCluster" \in inv.calls
               => /\ inv.readyInstances = inv.instances
                  /\ inv.instances = inv.spec.instances
                  /\ "RegisterPhase" \in inv.calls
                  /\ status.phase = PhaseHealthy
        /\ (inv.danglingPVC = {} /\ inv.instances > 0
               /\ inv.readyInstances = inv.instances
               /\ inv.instances = inv.spec.instances)
               => /\ "RegisterPhase" \in inv.calls
                  /\ IF inv.failed = "RegisterPhase"
                     THEN inv.err /\ "upgradeCluster" \notin inv.calls
                     ELSE "upgradeCluster" \in inv.calls
                             /\ status.phase = PhaseHealthy

\* The sequencer ran on a reconciled cluster and recreated a pod.
C10_Witness ==
    /\ "upgradeCluster" \in inv.calls
    /\ inv.instances = inv.spec.instances
    /\ inv.deleted # {}

\* The cluster is at its desired size with every instance ready, and is
\* marked healthy.
C8_Healthy ==
    /\ Cardinality(CachedPods(pods)) = specInstances
    /\ ReadyInstances(pods, ready) = CachedPods(pods)
    /\ status.phase = PhaseHealthy

\* Current primary equals target primary: no promotion is pending.
C8_PrimarySettled == status.currentPrimary = status.targetPrimary

StatusUntouched ==
    /\ status.currentPrimary = inv.startCurrent
    /\ status.targetPrimary = inv.startTarget
    /\ status.latestGeneratedNode = inv.latestBefore

\* C11: an invocation whose status update fails with a conflict returns
\* success and ends there: after the call of updateResourceStatus nothing is
\* called, the target primary is not updated and no pod is acted on; any
\* other failure of the status update is returned as an error.
C11_ConflictEnds ==
    Invoked =>
        /\ inv.outcome = "conflict" =>
               /\ ~inv.err
               /\ inv.calls = {"updateResourceStatus"}
               /\ NoPodAction
               /\ StatusUntouched
        /\ inv.outcome = "errStatus" =>
               /\ inv.err
               /\ inv.calls = {"updateResourceStatus"}
               /\ NoPodAction

\* The status update of a cluster short of an instance hit a conflict.
C11_Witness ==
    /\ inv.outcome = "conflict"
    /\ ~inv.err
    /\ Cardinality(CachedPods(pods)) = 1
    /\ specInstances = 2
    /\ ready = {1}

\* C12, as stated: an invocation that finds the cluster or its namespace
\* deleted (either lookup reports not-found, or the namespace carries a
\* deletion timestamp) returns success, updates no status and acts on no child
\* resource.
C12_Original ==
    (Invoked /\ inv.outcome \in {"notFound", "namespaceNotFound", "nsDeleting"})
        => /\ ~inv.err
           /\ inv.calls = {}
           /\ NoPodAction
           /\ StatusUntouched

\* C12, amended: an invocation that finds the cluster not found, or its
\* namespace carrying a deletion timestamp, returns success, updates no status
\* and acts on no child resource; one whose namespace lookup fails, with
\* not-found or otherwise, returns an error, and acts on nothing either.
C12_DeletedIsNoOp ==
    Invoked =>
        /\ inv.outcome \in {"notFound", "nsDeleting"} => ~inv.err
        /\ inv.outcome \in {"namespaceNotFound", "errNamespace", "errGet"}
               => inv.err
        /\ inv.outcome \in {"notFound", "nsDeleting", "namespaceNotFound",
                             "errNamespace", "errGet"}
               => /\ inv.calls = {}
                  /\ NoPodAction
                  /\ StatusUntouched

\* A cluster with an instance to join was found in a namespace being deleted.
C12_Witness ==
    /\ inv.outcome = "nsDeleting"
    /\ ~inv.err
    /\ ready = {1}
    /\ specInstances = 2
    /\ podExpectations = NoExpectations

\* The invocation created or deleted a pod.
PodAction == inv.created # {} \/ inv.deleted # {}

\* The resolver set a new target primary in this invocation.
TargetChanged == status.targetPrimary # inv.startTarget

C15_WaitCase ==
    /\ EnteredPods
    /\ inv.danglingPVC # {}
    /\ ~(inv.spec.mwInProgress /\ inv.spec.mwReusePVC)
    /\ inv.readyInstances # inv.instances

\* C15, as stated: with dangling PVCs, outside a maintenance-reuse window and
\* with ReadyInstances # Instances, ReconcilePods waits and recreates no pod.
C15_Original ==
    C15_WaitCase => (inv.rule = "waitDangling" /\ inv.created = {})

\* C15, amended: with dangling PVCs, ReconcilePods waits and acts on no pod
\* when no maintenance window is in progress and ReadyInstances # Instances;
\* when a maintenance window is in progress, reusing PVCs or not, or
\* ReadyInstances = Instances, it calls handleDanglingPVC, and that only.
C15_DanglingRule ==
    (EnteredPods /\ inv.danglingPVC # {}) =>
        IF ~inv.spec.mwInProgress /\ inv.readyInstances # inv.instances
        THEN /\ inv.rule = "waitDangling"
             /\ NoPodAction
             /\ ~inv.err
        ELSE /\ inv.rule = "dangling"
             /\ SelectorCalls = {"handleDanglingPVC"}
             /\ inv.deleted = {}
             /\ inv.created = IF inv.err THEN {} ELSE inv.danglingPVC

\* In a maintenance window that does not reuse PVCs, the pod of a dangling
\* PVC was recreated while another pod was not ready.
C15_Witness ==
    /\ C15_WaitCase
    /\ inv.spec.mwInProgress
    /\ inv.rule = "dangling"
    /\ inv.created = inv.danglingPVC

\* The invocation joined, or set out to join, a replica.
JoinCalls == inv.calls \cap {"generateNodeSerial", "joinReplicaInstance"}

\* C16: outside a maintenance-reuse window, an invocation of ReconcilePods
\* that finds ReadyInstances < Instances joins no replica and removes no
\* instance, and with no dangling PVC it waits and acts on no pod; a replica
\* is joined only with ReadyInstances = Instances.
C16_WaitNotReady ==
    EnteredPods =>
        /\ (~(inv.spec.mwInProgress /\ inv.spec.mwReusePVC)
                /\ inv.readyInstances < inv.instances)
               => /\ JoinCalls = {}
                  /\ "scaleDownCluster" \notin inv.calls
                  /\ inv.deleted = {}
                  /\ inv.danglingPVC = {}
                         => (inv.rule = "waitNotReady" /\ NoPodAction
                                /\ ~inv.err)
        /\ JoinCalls # {} => inv.readyInstances = inv.instances

\* Outside a maintenance-reuse window the loop waited for a pod to be ready,
\* with more instances than desired.
C16_Witness ==
    /\ inv.rule = "waitNotReady"
    /\ inv.readyInstances < inv.instances
    /\ inv.instances > inv.spec.instances
    /\ inv.spec.mwInProgress

\* C17: ReconcilePods calls scaleDownCluster exactly when Instances >
\* Spec.Instances and no rule of higher priority matches, and then calls
\* nothing else; the call removes one instance of the Instances it counted,
\* which leaves no fewer than Spec.Instances of them, or fails, and its
\* failure is returned as an error.
C17_ScaleDown ==
    EnteredPods =>
        /\ "scaleDownCluster" \in inv.calls
               <=> (FirstRule = "scaleDown" /\ inv.instances > inv.spec.instances)
        /\ "scaleDownCluster" \in inv.calls
               => /\ inv.instances > inv.spec.instances
                  /\ inv.rule = "scaleDown"
                  /\ SelectorCalls = {"scaleDownCluster"}
                  /\ inv.created = {}
                  /\ IF inv.failed = "scaleDownCluster"
                     THEN inv.err /\ inv.deleted = {}
                     ELSE /\ ~inv.err
                          /\ Cardinality(inv.deleted) = 1
                          /\ inv.instances - 1 >= inv.spec.instances
                          /\ \A s \in inv.deleted : pods[s] = "deleting"
        /\ inv.instances <= inv.spec.instances
               => "scaleDownCluster" \notin inv.calls

\* A cluster of three instances was asked to have one, and the third instance
\* was removed.
C17_Witness ==
    /\ inv.rule = "scaleDown"
    /\ inv.instances = 3
    /\ inv.spec.instances = 1
    /\ inv.deleted = {3}
    /\ ~inv.err

\* What Reconcile calls after the check of the running jobs.
AfterJobsCallees ==
    {"createPostgresClusterObjects", "updateTargetPrimaryFromPods",
     "updateLabelsOnPods", "ReconcilePods"} \cup SelectorCallees

\* C18: an invocation that finds a running job calls nothing after the status
\* update: no auxiliary object is created, the target primary is not updated
\* and no pod is acted on; once its status update has succeeded it returns
\* success; ReconcilePods is entered only with no running job.
C18_JobsGate ==
    Invoked =>
        /\ inv.runningJobs > 0
               => /\ inv.calls \cap AfterJobsCallees = {}
                  /\ NoPodAction
                  /\ StatusUntouched
                  /\ inv.outcome
                         \in EarlyOutcomes \cup {"waitFailover", "conflict",
                                                 "errStatus", "waitJobs"}
        /\ inv.outcome = "waitJobs"
               <=> /\ inv.runningJobs > 0
                   /\ "updateResourceStatus" \in inv.calls
                   /\ inv.outcome \notin {"conflict", "errStatus"}
        /\ inv.outcome = "waitJobs" => ~inv.err
        /\ EnteredPods => inv.runningJobs = 0

\* The loop waited for the job of a joining replica, its creation already
\* observed.
C18_Witness ==
    /\ inv.outcome = "waitJobs"
    /\ inv.runningJobs = 1
    /\ AllFulfilled
    /\ inv.instances = 1
    /\ inv.spec.instances = 3

\* ------------------------------------------------------- reading a run

ToolExecuted == "RunStreaming" \in walCalls

\* The detected version is older than 2.13, or none was detected.
OlderThan213(version) ==
    \/ ~version.known
    \/ version.major < 2
    \/ version.major = 2 /\ version.minor < 13

\* C13: in a run whose cluster has Azure credentials and whose tool is older
\* than 2.13 or of no detected version, building the options fails: run
\* returns the error that names the required version, builds no option list,
\* does not ask for the credentials and never executes the tool.
C13_AzureNeeds213 ==
    (walBackup.azure /\ OlderThan213(walVersion))
        => /\ ~ToolExecuted
           /\ "GetEnv" \notin walCalls
           /\ walOptions = <<>>
           /\ "barmanCloudWalArchiveOptions" \in walCalls
                  => /\ walPc = "done"
                     /\ walReturn = AzureError
                     /\ walReturn # "nil"

\* Azure credentials with barman-cloud 2.12, and with no detected version.
C13_Witness ==
    /\ walBackup.azure
    /\ walReturn = AzureError
    /\ "GetBarmanCloudVersion" \in walCalls
    /\ walVersion.known => walVersion.major = 2 /\ walVersion.minor = 12

\* C19: the tool is executed at most once in a run; when it fails, run
\* returns the error that wraps the failure and 'Archived WAL file' is not
\* logged; 'Archived WAL file' is logged only when the tool has been executed
\* and has succeeded, and run then returns success.
C19_ToolFailure ==
    /\ Len(walExit) <= 1
    /\ ToolExecuted <=> walExit # <<>>
    /\ (walExit # <<>> /\ walExit[1] # 0)
           => /\ walPc = "done"
              /\ walReturn = ToolFailure
              /\ "Archived WAL file" \notin walLog
    /\ "Archived WAL file" \in walLog
           => /\ walExit = <<0>>
              /\ walReturn = "nil"

\* The tool could not be started, and run returned the failure.
C19_Witness ==
    /\ walExit = <<-1>>
    /\ walReturn = ToolFailure

\* The errors of the steps that come before the execution of the tool.
StepErrors ==
    {"cannot create k8s client", "failed to get cluster", AzureError,
     "failed to get envs"}

ClusterFetched ==
    /\ "GetCluster" \in walCalls
    /\ walReturn # "failed to get cluster"

StoreConfigured == walBackup.hasBackup /\ walBackup.hasStore

\* C20: the tool is executed only in a run that fetched the cluster, found a
\* backup object store, built the options and obtained the credentials; a
\* run that fetched a cluster with no backup object store returns success
\* without executing the tool; a run in which a step before the execution
\* failed returns that step's error without executing the tool.
C20_ToolGate ==
    /\ ToolExecuted
           => /\ ClusterFetched
              /\ StoreConfigured
              /\ "barmanCloudWalArchiveOptions" \in walCalls
              /\ walOptions # <<>>
              /\ "GetEnv" \in walCalls
              /\ walReturn \notin StepErrors
    /\ (ClusterFetched /\ ~StoreConfigured /\ walPc \notin {"backup"})
           => /\ walPc = "done"
              /\ walReturn = "nil"
              /\ walCalls = {"NewControllerRuntimeClient", "GetCluster"}
    /\ walReturn \in StepErrors => walPc = "done" /\ ~ToolExecuted
    /\ walPc = "done" <=> walReturn # "running"

\* A backup section with no object store: run returned success at once.
C20_Witness ==
    /\ walBackup.hasBackup
    /\ ~walBackup.hasStore
    /\ walPc = "done"
    /\ walReturn = "nil"
    /\ ~ToolExecuted

====
